---------------------------- MODULE Spec2Model ----------------------------
(***************************************************************************)
(* Verification model of the visualization glue of Project Chrono:         *)
(*   - ChVSGApp (src/unnamed/part_000): the scene graph built from the     *)
(*     body list of the physical system, its per-step update through the   *)
(*     linear lookup GetTransform, and the output wait counter;            *)
(*   - ChIrrGUI / ChIrrEventReceiver (src/unnamed/part_002): the event     *)
(*     receiver of the Irrlicht GUI and the per-frame Render / BeginScene  *)
(*     / EndScene calls.                                                   *)
(*                                                                         *)
(* Numbers.  Positions are 2-D integer vectors and rotations are quarter   *)
(* turns about the vertical axis (the integers mod 4), so that rotating a  *)
(* vector and composing rotations are exact.  The camera speed is counted  *)
(* in units of 0.02 / 2^MaxSpeedUps, so that 0.02 and its first            *)
(* MaxSpeedUps multiples by 1.5 are integers.                              *)
(***************************************************************************)
EXTENDS Integers, Sequences, FiniteSets

(***************************************************************************)
(* Bounds of the model.                                                    *)
(***************************************************************************)
\* assets attached to the bodies of the system, all bodies together
MaxAssets == 2
\* doTimeStep calls of one run
MaxSteps == 5
\* largest time step and output step, in units of one time quantum
MaxStepSize == 3
\* frames exported by one run
MaxFrames == 2
\* user event receivers registered with the GUI
MaxReceivers == 2
\* consecutive multiplications of the camera speed by 1.5
MaxSpeedUps == 2
\* the highest position of the scroll bar of the modal mode
MaxModes == 2
\* the most "Shoe Materials" entries of a JSON document
MaxMats == 2
\* the most "Shoe Shapes" entries, and "Primitives" entries, of a document
MaxShapes == 2

(***************************************************************************)
(* The physical system seen by ChVSGApp: bodies, their assets, poses.      *)
(***************************************************************************)
Bodies == {"b1", "b2"}

NullBody == "nullbody"

\* the dynamic types of the assets a body can hold
AssetIds == {"box", "sphere", "ellipsoid", "cylinder", "color"}

NullAsset == "nullasset"

\* what the dynamic_casts of BuildSceneGraph / UpdateSceneGraph answer
IsBoxShape(a) == a = "box"

IsSphereShape(a) == a = "sphere"

IsEllipsoidShape(a) == a = "ellipsoid"

IsCylinderShape(a) == a = "cylinder"

\* ChColorAsset derives from ChAsset only; the four shapes are ChVisualization
IsVisualization(a) == a \in {"box", "sphere", "ellipsoid", "cylinder"}

\* ChVisualization::Pos of each asset (the offset in the body frame)
AssetPos(a) ==
    CASE a = "box" -> <<1, 0>>
      [] a = "sphere" -> <<0, 0>>
      [] a = "ellipsoid" -> <<0, 1>>
      [] a = "cylinder" -> <<2, 0>>
      [] OTHER -> <<0, 0>>

\* ChVisualization::Rot of each asset, in quarter turns
AssetRot(a) ==
    CASE a = "box" -> 1
      [] a = "cylinder" -> 3
      [] OTHER -> 0

\* GetBoxGeometry().GetSize()
BoxSize(a) == <<1, 2, 3>>

\* GetSphereGeometry().rad
SphereRad(a) == 2

\* GetEllipsoidGeometry().rad
EllipsoidRad(a) == <<1, 2, 1>>

\* GetCylinderGeometry(): rad, p1, p2 (an axis-aligned cylinder)
CylinderGeometry(a) == [rad |-> 1, p1 |-> <<0, 3>>, p2 |-> <<0, 1>>]

\* the poses a body can take: GetFrame_REF_to_abs() position and rotation
Poses ==
    { [pos |-> <<0, 0>>, rot |-> 0],
      [pos |-> <<1, 2>>, rot |-> 1] }

Abs(x) == IF x < 0 THEN -x ELSE x

\* ChVector::Length of an axis-aligned vector
Length(v) == Abs(v[1]) + Abs(v[2])

\* ChQuaternion::Rotate: the vector v turned by q quarter turns
Rotate(q, v) ==
    CASE q % 4 = 0 -> v
      [] q % 4 = 1 -> <<-v[2], v[1]>>
      [] q % 4 = 2 -> <<-v[1], -v[2]>>
      [] OTHER -> <<v[2], -v[1]>>

\* ChQuaternion operator% : the product of two rotations
QuatProduct(q1, q2) == (q1 + q2) % 4

\* ChVector operator+
VAdd(u, v) == <<u[1] + v[1], u[2] + v[2]>>

VARIABLES
    bodylist,            \* m_system->Get_bodylist()
    assets,              \* body->GetAssets() of each body
    pose,                \* GetFrame_REF_to_abs() of each body
    chTime,              \* the time of the physical system, in quanta
    m_system,            \* TRUE once Initialize has stored the system
    m_timeStep,
    m_outputStep,
    m_build_graph,
    m_wait_counter,
    m_wait_counter_max,
    m_scenegraph,        \* the children of the scene-graph root
    step_index,          \* history: doTimeStep calls since Initialize
    update_called,       \* history: the last doTimeStep called UpdateSceneGraph
    null_deref,          \* UpdateSceneGraph used a null transform reference
    q_body,              \* arguments and result of the last GetTransform call
    q_asset,
    q_result,
    last_op              \* history: the operation that acted last

VARIABLES
    chrono_postprocess,  \* the build defines CHRONO_POSTPROCESS
    initialized,
    m_user_receivers,
    show_infos,
    show_profiler,
    show_explorer,
    utility_flag,        \* m_vis->GetUtilityFlag()
    solver_matrix_write, \* m_system->IsSolverMatrixWriteEnabled()
    camera_auto_rotate_speed,
    camera_rotation,     \* the angle BeginScene last turned the camera by
    device_closed,       \* GetDevice()->closeDevice() was called
    symbolscale,
    modal_amplitude,
    modal_speed,
    modal_mode_n,
    blender_save,
    blender_exporter,    \* TRUE once the exporter has been created
    blender_num,
    blender_each,
    g_tabbed_visible,    \* g_tabbed->setVisible
    g_treeview_visible,  \* g_treeview->setVisible
    tree_updated,        \* the last Render ran recurse_update_tree_node
    profiler_drawn,      \* the last EndScene ran tools::drawProfiler
    exported,            \* the last EndScene ran blender_exporter->ExportData
    ev,                  \* the event of the last OnEvent call
    ret,                 \* what the last OnEvent call returned
    offered,             \* the user receivers the last OnEvent call invoked
    calls,               \* the calls out of the GUI the last OnEvent call made
    utility_flag0,       \* history: the utility flag before the first event
    space_count,         \* history: parity of the handled spacebar releases
    f7_count,            \* history: parity of the handled F7 releases
    last_camera_key      \* history: the last handled key among F2, F3, F4

vsgVars ==
    <<bodylist, assets, pose, chTime, m_system, m_timeStep, m_outputStep,
      m_build_graph, m_wait_counter, m_wait_counter_max, m_scenegraph,
      step_index, update_called, null_deref, q_body, q_asset, q_result>>

guiVars ==
    <<chrono_postprocess, initialized, m_user_receivers, show_infos,
      show_profiler, show_explorer, utility_flag, solver_matrix_write,
      camera_auto_rotate_speed, camera_rotation, device_closed, symbolscale,
      modal_amplitude, modal_speed, modal_mode_n, blender_save,
      blender_exporter, blender_num, blender_each, g_tabbed_visible,
      g_treeview_visible,
      tree_updated, profiler_drawn, exported, ev, ret, offered, calls,
      utility_flag0, space_count, f7_count, last_camera_key>>

VARIABLES
    d,                   \* the rapidjson::Document the track shoe is made from
    ndebug,              \* the build defines NDEBUG: assert() expands to nothing
    m_shoe_mat_info,     \* TrackShoeDoublePin members
    m_coll_boxes,
    m_coll_cylinders,
    m_vis_boxes,
    m_vis_cylinders,
    m_has_mesh,
    shoe_state,          \* history: how the constructor ended
    abort_at             \* history: the "Shoe Shapes" entry whose assert failed

shoeVars ==
    <<d, ndebug, m_shoe_mat_info, m_coll_boxes, m_coll_cylinders, m_vis_boxes,
      m_vis_cylinders, m_has_mesh, shoe_state, abort_at>>

vars == <<vsgVars, guiVars, shoeVars, last_op>>

(***************************************************************************)
(* ChVSGApp                                                                *)
(***************************************************************************)

\* vsg::translate(pos_final) * vsg::rotate(angle, axis) * vsg::scale(size)
Matrix(pos_final, lrot, size) ==
    [translate |-> pos_final, rotate |-> lrot, scale |-> size]

\* the scale of the shape: the size handed to vsg::scale by the four branches
ShapeScale(a) ==
    IF IsBoxShape(a) THEN BoxSize(a)
    ELSE IF IsSphereShape(a) THEN <<SphereRad(a), SphereRad(a), SphereRad(a)>>
    ELSE IF IsEllipsoidShape(a) THEN EllipsoidRad(a)
    ELSE LET g == CylinderGeometry(a)
         IN  <<g.rad, g.rad, Length(VAdd(g.p1, <<-g.p2[1], -g.p2[2]>>))>>

\* the matrix both BuildSceneGraph and UpdateSceneGraph compute for an asset of
\* a body in pose p: center = rot.Rotate(Pos), lrot = rot % Rot, pos + center
ShapeMatrix(p, a) ==
    LET center == Rotate(p.rot, AssetPos(a))
        lrot == QuatProduct(p.rot, AssetRot(a))
    IN  Matrix(VAdd(p.pos, center), lrot, ShapeScale(a))

\* VSGIndexBox / VSGIndexSphere / VSGIndexCylinder (body, asset, transform)
\* .createVSGNode(): the node carries bodyPtr, assetPtr and the transform
CreateVSGNode(body, asset, p) ==
    [bodyPtr |-> body, assetPtr |-> asset, transform |-> ShapeMatrix(p, asset)]

\* AssetNodes gone wrong: the branch of the ellipsoid is missing
AssetNodesNoEllipsoid(body, asset, p) ==
    (IF IsBoxShape(asset) THEN <<CreateVSGNode(body, asset, p)>> ELSE <<>>)
    \o (IF IsSphereShape(asset) THEN <<CreateVSGNode(body, asset, p)>> ELSE <<>>)
    \o (IF IsCylinderShape(asset) THEN <<CreateVSGNode(body, asset, p)>> ELSE <<>>)

\* the children one asset adds: the four consecutive ifs of the inner loop
AssetNodes(body, asset, p) ==
    (IF IsBoxShape(asset) THEN <<CreateVSGNode(body, asset, p)>> ELSE <<>>)
    \o (IF IsSphereShape(asset) THEN <<CreateVSGNode(body, asset, p)>> ELSE <<>>)
    \o (IF IsEllipsoidShape(asset) THEN <<CreateVSGNode(body, asset, p)>> ELSE <<>>)
    \o (IF IsCylinderShape(asset) THEN <<CreateVSGNode(body, asset, p)>> ELSE <<>>)

\* the second loop over the assets of one body, from index i on
RECURSIVE BuildBody(_, _, _, _)
BuildBody(body, alist, p, i) ==
    IF i > Len(alist) THEN <<>>
    ELSE AssetNodes(body, alist[i], p) \o BuildBody(body, alist, p, i + 1)

\* the loop over the body list, from index k on
RECURSIVE BuildBodies(_, _, _, _)
BuildBodies(blist, as, ps, k) ==
    IF k > Len(blist) THEN <<>>
    ELSE BuildBody(blist[k], as[blist[k]], ps[blist[k]], 1)
         \o BuildBodies(blist, as, ps, k + 1)

\* ChVSGApp::BuildSceneGraph: the children added to the (empty) root
BuildSceneGraph(blist, as, ps) == BuildBodies(blist, as, ps, 1)

\* GetTransformFrom gone wrong: a child matching the body or the asset is taken
RECURSIVE GetTransformFromEither(_, _, _, _)
GetTransformFromEither(sg, body, asset, iChild) ==
    IF iChild > Len(sg) THEN 0
    ELSE IF sg[iChild].bodyPtr = body \/ sg[iChild].assetPtr = asset THEN iChild
    ELSE GetTransformFromEither(sg, body, asset, iChild + 1)

\* ChVSGApp::GetTransform: the index of the child whose transform is returned,
\* 0 for the null reference; the scan starts at child iChild
RECURSIVE GetTransformFrom(_, _, _, _)
GetTransformFrom(sg, body, asset, iChild) ==
    IF iChild > Len(sg) THEN 0
    ELSE IF sg[iChild].bodyPtr = body /\ sg[iChild].assetPtr = asset THEN iChild
    ELSE GetTransformFrom(sg, body, asset, iChild + 1)

GetTransform(sg, body, asset) == GetTransformFrom(sg, body, asset, 1)

\* tm->setMatrix(m) on the reference GetTransform returned; a null reference
\* leaves the graph as it is and is recorded in the second component
SetMatrix(st, tm, m) ==
    IF tm = 0 THEN <<st[1], TRUE>>
    ELSE <<[st[1] EXCEPT ![tm].transform = m], st[2]>>

\* one asset of UpdateSceneGraph: st = <<scene graph, null dereferenced>>
UpdateAsset(st, body, asset, p) ==
    IF ~IsVisualization(asset) THEN st
    ELSE IF IsBoxShape(asset) \/ IsSphereShape(asset)
            \/ IsEllipsoidShape(asset) \/ IsCylinderShape(asset)
         THEN SetMatrix(st, GetTransform(st[1], body, asset), ShapeMatrix(p, asset))
         ELSE st

RECURSIVE UpdateBody(_, _, _, _, _)
UpdateBody(st, body, alist, p, i) ==
    IF i > Len(alist) THEN st
    ELSE UpdateBody(UpdateAsset(st, body, alist[i], p), body, alist, p, i + 1)

RECURSIVE UpdateBodies(_, _, _, _, _)
UpdateBodies(st, blist, as, ps, k) ==
    IF k > Len(blist) THEN st
    ELSE UpdateBodies(UpdateBody(st, blist[k], as[blist[k]], ps[blist[k]], 1),
                      blist, as, ps, k + 1)

\* ChVSGApp::UpdateSceneGraph: <<the scene graph afterwards, null dereferenced>>
UpdateSceneGraph(sg, blist, as, ps) == UpdateBodies(<<sg, FALSE>>, blist, as, ps, 1)

\* IncreaseWaitCounter gone wrong: the counter is reset one call early
IncreaseWaitCounterEarly(c, max) == IF c + 1 >= max THEN 1 ELSE c + 1

\* ChVSGApp::IncreaseWaitCounter
IncreaseWaitCounter(c, max) == IF c + 1 > max THEN 1 ELSE c + 1

\* the wait states Initialize derives from the two steps
WaitCounterMax(outputStep, timeStep) ==
    IF outputStep <= timeStep THEN 1 ELSE outputStep \div timeStep

\* the asset lists the bodies of a system can hold
AssetLists == UNION { [1..n -> AssetIds] : n \in 0..MaxAssets }

\* ChVSGApp::ChVSGApp, and the system the application is given
VSGConstructed ==
    /\ bodylist \in {<<>>, <<"b1">>, <<"b1", "b2">>}
    /\ assets \in [Bodies -> AssetLists]
    /\ Len(assets["b1"]) + Len(assets["b2"]) <= MaxAssets
    /\ \A b \in Bodies : (\A i \in 1..Len(bodylist) : bodylist[i] # b) => assets[b] = <<>>
    /\ pose = [b \in Bodies |-> [pos |-> <<0, 0>>, rot |-> 0]]
    /\ chTime = 0
    /\ m_system = FALSE
    /\ m_build_graph = TRUE
    /\ m_wait_counter = 1
    /\ m_wait_counter_max = 1
    /\ m_scenegraph = <<>>
    /\ step_index = 0
    /\ update_called = FALSE
    /\ null_deref = FALSE
    /\ q_body = NullBody
    /\ q_asset = NullAsset
    /\ q_result = 0
    /\ last_op = "construct"

\* ChVSGApp::Initialize(w, h, title, system) with a system
Initialize ==
    /\ ~m_system
    /\ m_system' = TRUE
    /\ m_wait_counter_max' = WaitCounterMax(m_outputStep, m_timeStep)
    /\ m_scenegraph' = BuildSceneGraph(bodylist, assets, pose)
    /\ m_build_graph' = FALSE
    /\ last_op' = "Initialize"
    /\ UNCHANGED <<bodylist, assets, pose, chTime, m_timeStep, m_outputStep,
                   m_wait_counter, step_index, update_called, null_deref,
                   q_body, q_asset, q_result>>
    /\ UNCHANGED guiVars
    /\ UNCHANGED shoeVars

\* ChVSGApp::doTimeStep; DoStepDynamics moves the bodies to the poses ps
doTimeStep(ps) ==
    /\ m_system
    /\ step_index < MaxSteps
    /\ pose' = ps
    /\ chTime' = chTime + m_timeStep
    /\ IF m_wait_counter = m_wait_counter_max
       THEN \E upd \in {UpdateSceneGraph(m_scenegraph, bodylist, assets, ps)} :
                /\ m_scenegraph' = upd[1]
                /\ null_deref' = (null_deref \/ upd[2])
                /\ update_called' = TRUE
       ELSE /\ UNCHANGED <<m_scenegraph, null_deref>>
            /\ update_called' = FALSE
    /\ m_wait_counter' = IncreaseWaitCounter(m_wait_counter, m_wait_counter_max)
    /\ step_index' = step_index + 1
    /\ last_op' = "doTimeStep"
    /\ UNCHANGED <<bodylist, assets, m_system, m_timeStep, m_outputStep,
                   m_build_graph, m_wait_counter_max, q_body, q_asset, q_result>>
    /\ UNCHANGED guiVars
    /\ UNCHANGED shoeVars

\* a call GetTransform(body, asset) on the built graph
GetTransformCall(body, asset) ==
    /\ m_system
    /\ q_body' = body
    /\ q_asset' = asset
    /\ q_result' = GetTransform(m_scenegraph, body, asset)
    /\ last_op' = "GetTransform"
    /\ UNCHANGED <<bodylist, assets, pose, chTime, m_system, m_timeStep,
                   m_outputStep, m_build_graph, m_wait_counter,
                   m_wait_counter_max, m_scenegraph, step_index, update_called,
                   null_deref>>
    /\ UNCHANGED guiVars
    /\ UNCHANGED shoeVars

\* the poses DoStepDynamics can leave the bodies of the list in
NextPoses ==
    { ps \in [Bodies -> Poses] :
        \A b \in Bodies :
            (\A i \in 1..Len(bodylist) : bodylist[i] # b) => ps[b] = pose[b] }

(***************************************************************************)
(* ChIrrGUI and its event receiver                                         *)
(***************************************************************************)

\* A double d of the GUI parameters is the integer 20 * d; 10e-12, the floor
\* of the symbol scale, lies between 0 and every other positive value used
Scaled(tenths) == 2 * tenths

TinyScale == 1

ChMax(a, b) == IF a > b THEN a ELSE b

RECURSIVE Pow2(_)
Pow2(n) == IF n = 0 THEN 1 ELSE 2 * Pow2(n - 1)

\* the speed 0.02, in units of 0.02 / 2^MaxSpeedUps
SpeedStep == Pow2(MaxSpeedUps)

\* speed *= 1.5
TimesOneAndHalf(s) == (s * 3) \div 2

\* the keys of irr::EKEY_CODE that are used, and one that no one handles
Keys ==
    { "KEY_KEY_I", "KEY_KEY_O", "KEY_KEY_U", "KEY_SPACE", "KEY_F8", "KEY_F6",
      "KEY_F7", "KEY_F4", "KEY_F3", "KEY_F2", "KEY_ESCAPE", "KEY_F12",
      "KEY_KEY_P", "KEY_F10", "KEY_F11", "KEY_KEY_A" }

\* irr::SEvent
KeyEvent(key, down) ==
    [EventType |-> "EET_KEY_INPUT_EVENT", Key |-> key, PressedDown |-> down,
     GUIEventType |-> "none", id |-> 0, text |-> "", pos |-> 0]

GUIEvent(type, id, text, pos) ==
    [EventType |-> "EET_GUI_EVENT", Key |-> "none", PressedDown |-> FALSE,
     GUIEventType |-> type, id |-> id, text |-> text, pos |-> pos]

MouseEvent ==
    [EventType |-> "EET_MOUSE_INPUT_EVENT", Key |-> "none", PressedDown |-> FALSE,
     GUIEventType |-> "none", id |-> 0, text |-> "", pos |-> 0]

NoEvent ==
    [EventType |-> "none", Key |-> "none", PressedDown |-> FALSE,
     GUIEventType |-> "none", id |-> 0, text |-> "", pos |-> 0]

IsKeyRelease(e, key) ==
    e.EventType = "EET_KEY_INPUT_EVENT" /\ ~e.PressedDown /\ e.Key = key

\* the user-specified receivers: a driver that consumes the keys it steers
\* with, and a logger that consumes nothing
UserReceivers == {"driver", "logger"}

\* the user-specified receivers of an application with widgets of its own: a
\* panel that consumes the GUI events it answers, and the logger
WidgetReceivers == {"panel", "logger"}

\* the widgets whose events the panel answers with true
PanelIds == {9927, 9926, 101}

DriverKeys == {"KEY_SPACE", "KEY_KEY_I", "KEY_F7", "KEY_F4"}

\* recv->OnEvent(event)
RecvOnEvent(recv, e) ==
    \/ /\ recv = "driver"
       /\ e.EventType = "EET_KEY_INPUT_EVENT"
       /\ ~e.PressedDown
       /\ e.Key \in DriverKeys
    \/ /\ recv = "panel"
       /\ e.EventType = "EET_GUI_EVENT"
       /\ e.id \in PanelIds

\* atof of the text of an edit box
Atof(text) ==
    CASE text = "2" -> Scaled(20)
      [] text = "0.5" -> Scaled(5)
      [] text = "-1" -> -Scaled(10)
      [] OTHER -> 0

\* the state of the GUI the event receiver reads and writes
GuiState ==
    [chrono_postprocess |-> chrono_postprocess,
     m_user_receivers |-> m_user_receivers,
     show_infos |-> show_infos,
     show_profiler |-> show_profiler,
     show_explorer |-> show_explorer,
     utility_flag |-> utility_flag,
     solver_matrix_write |-> solver_matrix_write,
     camera_auto_rotate_speed |-> camera_auto_rotate_speed,
     device_closed |-> device_closed,
     symbolscale |-> symbolscale,
     modal_amplitude |-> modal_amplitude,
     modal_speed |-> modal_speed,
     modal_mode_n |-> modal_mode_n,
     blender_save |-> blender_save,
     blender_exporter |-> blender_exporter,
     blender_num |-> blender_num,
     ret |-> ret,
     offered |-> offered,
     calls |-> calls]

\* ChIrrGUI::SetSymbolscale
SetSymbolscale(g, val) == [g EXCEPT !.symbolscale = ChMax(TinyScale, val)]

\* ChIrrGUI::SetModalAmplitude
SetModalAmplitude(g, val) == [g EXCEPT !.modal_amplitude = ChMax(0, val)]

\* ChIrrGUI::SetModalSpeed
SetModalSpeed(g, val) == [g EXCEPT !.modal_speed = ChMax(0, val)]

\* DumpSystemMatrices gone wrong: the dump is made outside the try block, and
\* its exception leaves the function
DumpSystemMatricesNoTry(exc) ==
    <<"Setup", "Update", "DumpSystemMatrices">>
    \o (IF exc THEN <<"throw ChException">> ELSE <<>>)

\* ChIrrGUI::DumpSystemMatrices: the calls it makes; exc: the dump throws
DumpSystemMatrices(exc) ==
    <<"Setup", "Update", "DumpSystemMatrices">>
    \o (IF exc THEN <<"catch ChException">> ELSE <<>>)

\* SetBlenderSave gone wrong: the exporter is never created
SetBlenderSaveNoExporter(g, val) == [g EXCEPT !.blender_save = val]

\* ChIrrGUI::SetBlenderSave
SetBlenderSave(g, val) ==
    IF ~val THEN [g EXCEPT !.blender_save = FALSE]
    ELSE IF ~g.blender_exporter
         THEN [g EXCEPT !.blender_save = TRUE, !.blender_exporter = TRUE,
                        !.blender_num = 0]
         ELSE [g EXCEPT !.blender_save = TRUE]

\* KeyF4 gone wrong: a speed of 0 is multiplied, not set to 0.02
KeyF4Strict(speed) == IF speed < 0 THEN SpeedStep ELSE TimesOneAndHalf(speed)

\* case irr::KEY_F4
KeyF4(speed) == IF speed <= 0 THEN SpeedStep ELSE TimesOneAndHalf(speed)

\* case irr::KEY_F2
KeyF2(speed) == IF speed >= 0 THEN -SpeedStep ELSE TimesOneAndHalf(speed)

\* case irr::KEY_F3
KeyF3(speed) == 0

\* KeyF7 gone wrong: the key only ever enables the writing
KeyF7Enable(enabled) == TRUE

\* case irr::KEY_F7
KeyF7(enabled) == IF ~enabled THEN TRUE ELSE FALSE

\* KeySpace gone wrong: the key only ever sets the flag
KeySpaceSet(flag) == TRUE

\* case irr::KEY_SPACE
KeySpace(flag) == ~flag

\* case irr::KEY_KEY_I
KeyI(shown) == ~shown

\* KeyO gone wrong: the key only ever shows the profiler
KeyOShow(shown) == TRUE

\* case irr::KEY_KEY_O
KeyO(shown) == ~shown

\* case irr::KEY_KEY_U
KeyU(shown) == ~shown

\* case irr::KEY_F12
KeyF12(g) ==
    IF g.chrono_postprocess
    THEN IF g.blender_save = FALSE THEN SetBlenderSave(g, TRUE)
         ELSE SetBlenderSave(g, FALSE)
    ELSE g

\* the keys the switch has a case for
SwitchKeys ==
    { "KEY_KEY_I", "KEY_KEY_O", "KEY_KEY_U", "KEY_SPACE", "KEY_F8", "KEY_F6",
      "KEY_F7", "KEY_F4", "KEY_F3", "KEY_F2", "KEY_ESCAPE", "KEY_F12" }

\* "Process keyboard events": the switch on a released key, every case of
\* which returns true
KeyInput(g, key, exc) ==
    LET h == [g EXCEPT !.ret = TRUE]
    IN  CASE key = "KEY_KEY_I" -> [h EXCEPT !.show_infos = KeyI(g.show_infos)]
          [] key = "KEY_KEY_O" -> [h EXCEPT !.show_profiler = KeyO(g.show_profiler)]
          [] key = "KEY_KEY_U" -> [h EXCEPT !.show_explorer = KeyU(g.show_explorer)]
          [] key = "KEY_SPACE" -> [h EXCEPT !.utility_flag = KeySpace(g.utility_flag)]
          [] key = "KEY_F8" -> [h EXCEPT !.calls = <<"dump.json", "dump.txt">>]
          [] key = "KEY_F6" -> [h EXCEPT !.calls = DumpSystemMatrices(exc)]
          [] key = "KEY_F7" ->
                [h EXCEPT !.solver_matrix_write = KeyF7(g.solver_matrix_write)]
          [] key = "KEY_F4" ->
                [h EXCEPT !.camera_auto_rotate_speed = KeyF4(g.camera_auto_rotate_speed)]
          [] key = "KEY_F3" ->
                [h EXCEPT !.camera_auto_rotate_speed = KeyF3(g.camera_auto_rotate_speed)]
          [] key = "KEY_F2" ->
                [h EXCEPT !.camera_auto_rotate_speed = KeyF2(g.camera_auto_rotate_speed)]
          [] key = "KEY_ESCAPE" ->
                [h EXCEPT !.device_closed = TRUE, !.calls = <<"closeDevice">>]
          [] key = "KEY_F12" -> KeyF12(h)
          [] OTHER -> g

\* GuiInput gone wrong: the edit boxes of the modal amplitude and of the modal
\* speed are wired to each other's parameter
GuiInputCrossed(g, e) ==
    IF e.GUIEventType = "EGET_EDITBOX_ENTER"
    THEN CASE e.id = 9921 -> SetSymbolscale(g, Atof(e.text))
           [] e.id = 9928 -> SetModalAmplitude(g, Atof(e.text))
           [] e.id = 9927 -> SetModalSpeed(g, Atof(e.text))
           [] OTHER -> g
    ELSE IF e.GUIEventType = "EGET_SCROLL_BAR_CHANGED"
    THEN IF e.id = 9926 THEN [g EXCEPT !.modal_mode_n = e.pos] ELSE g
    ELSE g

\* "Process GUI events": the switch on the event type and the caller's id
GuiInput(g, e) ==
    IF e.GUIEventType = "EGET_EDITBOX_ENTER"
    THEN CASE e.id = 9921 -> SetSymbolscale(g, Atof(e.text))
           [] e.id = 9927 -> SetModalAmplitude(g, Atof(e.text))
           [] e.id = 9928 -> SetModalSpeed(g, Atof(e.text))
           [] OTHER -> g
    ELSE IF e.GUIEventType = "EGET_SCROLL_BAR_CHANGED"
    THEN IF e.id = 9926 THEN [g EXCEPT !.modal_mode_n = e.pos] ELSE g
    ELSE g

\* FirstConsumer gone wrong: the loop does not stop at the first receiver that
\* returns true, and ends at the last one that does
RECURSIVE LastConsumer(_, _, _)
LastConsumer(recvs, e, i) ==
    IF i > Len(recvs) THEN 0
    ELSE IF LastConsumer(recvs, e, i + 1) # 0 THEN LastConsumer(recvs, e, i + 1)
    ELSE IF RecvOnEvent(recvs[i], e) THEN i
    ELSE 0

\* the loop over m_user_receivers: the index of the first receiver, from i on,
\* whose OnEvent returns true; 0 when none does
RECURSIVE FirstConsumer(_, _, _)
FirstConsumer(recvs, e, i) ==
    IF i > Len(recvs) THEN 0
    ELSE IF RecvOnEvent(recvs[i], e) THEN i
    ELSE FirstConsumer(recvs, e, i + 1)

\* ChIrrEventReceiver::OnEvent: the GUI state after the call, with what it
\* returned (ret), the user receivers it invoked (offered) and the calls it made
ReceiverOnEvent(g, e, exc) ==
    LET k == FirstConsumer(g.m_user_receivers, e, 1)
        g0 == [g EXCEPT !.calls = <<>>]
    IN  IF k # 0
        THEN [g0 EXCEPT !.offered = SubSeq(g.m_user_receivers, 1, k), !.ret = TRUE]
        ELSE LET g1 == [g0 EXCEPT !.offered = g.m_user_receivers, !.ret = FALSE]
             IN  IF e.EventType = "EET_KEY_INPUT_EVENT" /\ ~e.PressedDown
                    /\ e.Key \in SwitchKeys
                 THEN KeyInput(g1, e.Key, exc)
                 ELSE IF e.EventType = "EET_GUI_EVENT" THEN GuiInput(g1, e)
                 ELSE g1

\* the multiplication by 1.5 stays exact within MaxSpeedUps speed-ups
SpeedInRange(e) ==
    /\ IsKeyRelease(e, "KEY_F4") /\ camera_auto_rotate_speed > 0
          => camera_auto_rotate_speed % 2 = 0
    /\ IsKeyRelease(e, "KEY_F2") /\ camera_auto_rotate_speed < 0
          => camera_auto_rotate_speed % 2 = 0

\* the event reached the built-in handling: no user receiver consumed it
Unconsumed(e) == FirstConsumer(m_user_receivers, e, 1) = 0

\* the device delivers the event e to the receiver set by Initialize
OnEvent(e, exc) ==
    /\ initialized
    /\ ~device_closed
    /\ SpeedInRange(e)
    /\ \E g \in {ReceiverOnEvent(GuiState, e, exc)} :
           /\ show_infos' = g.show_infos
           /\ show_profiler' = g.show_profiler
           /\ show_explorer' = g.show_explorer
           /\ utility_flag' = g.utility_flag
           /\ solver_matrix_write' = g.solver_matrix_write
           /\ camera_auto_rotate_speed' = g.camera_auto_rotate_speed
           /\ device_closed' = g.device_closed
           /\ symbolscale' = g.symbolscale
           /\ modal_amplitude' = g.modal_amplitude
           /\ modal_speed' = g.modal_speed
           /\ modal_mode_n' = g.modal_mode_n
           /\ blender_save' = g.blender_save
           /\ blender_exporter' = g.blender_exporter
           /\ blender_num' = g.blender_num
           /\ ret' = g.ret
           /\ offered' = g.offered
           /\ calls' = g.calls
    /\ ev' = e
    /\ space_count' =
          IF IsKeyRelease(e, "KEY_SPACE") /\ Unconsumed(e)
          THEN 1 - space_count ELSE space_count
    /\ f7_count' =
          IF IsKeyRelease(e, "KEY_F7") /\ Unconsumed(e)
          THEN 1 - f7_count ELSE f7_count
    /\ last_camera_key' =
          IF /\ e.EventType = "EET_KEY_INPUT_EVENT" /\ ~e.PressedDown
             /\ e.Key \in {"KEY_F2", "KEY_F3", "KEY_F4"} /\ Unconsumed(e)
          THEN e.Key ELSE last_camera_key
    /\ last_op' = "OnEvent"
    /\ UNCHANGED <<chrono_postprocess, initialized, m_user_receivers,
                   blender_each, camera_rotation, g_tabbed_visible,
                   g_treeview_visible, tree_updated, profiler_drawn, exported,
                   utility_flag0>>
    /\ UNCHANGED vsgVars
    /\ UNCHANGED shoeVars

\* ChIrrGUI::Initialize: sets the event receiver and the edit boxes
ChIrrGUI_Initialize ==
    /\ ~initialized
    /\ initialized' = TRUE
    /\ symbolscale' = SetSymbolscale(GuiState, symbolscale).symbolscale
    /\ modal_amplitude' = SetModalAmplitude(GuiState, modal_amplitude).modal_amplitude
    /\ modal_speed' = SetModalSpeed(GuiState, modal_speed).modal_speed
    /\ last_op' = "ChIrrGUI::Initialize"
    /\ UNCHANGED <<chrono_postprocess, m_user_receivers, show_infos,
                   show_profiler, show_explorer, utility_flag,
                   solver_matrix_write, camera_auto_rotate_speed,
                   camera_rotation, device_closed, modal_mode_n, blender_save,
                   blender_exporter, blender_num, blender_each,
                   g_tabbed_visible, g_treeview_visible, tree_updated,
                   profiler_drawn, exported, ev, ret, offered, calls,
                   utility_flag0, space_count, f7_count, last_camera_key>>
    /\ UNCHANGED vsgVars
    /\ UNCHANGED shoeVars

\* ChIrrGUI::AddUserEventReceiver
AddUserEventReceiver(receiver) ==
    /\ Len(m_user_receivers) < MaxReceivers
    /\ m_user_receivers' = Append(m_user_receivers, receiver)
    /\ last_op' = "AddUserEventReceiver"
    /\ UNCHANGED <<chrono_postprocess, initialized, show_infos, show_profiler,
                   show_explorer, utility_flag, solver_matrix_write,
                   camera_auto_rotate_speed, camera_rotation, device_closed,
                   symbolscale, modal_amplitude, modal_speed, modal_mode_n,
                   blender_save, blender_exporter, blender_num, blender_each,
                   g_tabbed_visible, g_treeview_visible, tree_updated,
                   profiler_drawn, exported, ev, ret, offered, calls,
                   utility_flag0, space_count, f7_count, last_camera_key>>
    /\ UNCHANGED vsgVars
    /\ UNCHANGED shoeVars

\* g_tabbed->setVisible(show_infos)
TabbedVisible(infos) == infos

\* g_treeview->setVisible(show_explorer)
TreeviewVisible(explorer) == explorer

\* TreeUpdated gone wrong: the tree is refreshed in every frame
TreeUpdatedAlways(explorer) == TRUE

\* if (show_explorer) recurse_update_tree_node(...)
TreeUpdated(explorer) == explorer

\* ChIrrGUI::Render: the visibility of the tab panel and of the property tree
\* (the text and the drawings of the frame are no state of the GUI)
Render ==
    /\ initialized
    /\ ~device_closed
    /\ g_tabbed_visible' = TabbedVisible(show_infos)
    /\ g_treeview_visible' = TreeviewVisible(show_explorer)
    /\ tree_updated' = TreeUpdated(show_explorer)
    /\ last_op' = "Render"
    /\ UNCHANGED <<chrono_postprocess, initialized, m_user_receivers,
                   show_infos, show_profiler, show_explorer, utility_flag,
                   solver_matrix_write, camera_auto_rotate_speed,
                   camera_rotation, device_closed, symbolscale,
                   modal_amplitude, modal_speed, modal_mode_n, blender_save,
                   blender_exporter, blender_num, blender_each, profiler_drawn,
                   exported, ev, ret, offered, calls, utility_flag0,
                   space_count, f7_count, last_camera_key>>
    /\ UNCHANGED vsgVars
    /\ UNCHANGED shoeVars

\* ChIrrGUI::BeginScene: pos.rotateXZBy(camera_auto_rotate_speed, target)
BeginScene ==
    /\ initialized
    /\ ~device_closed
    /\ camera_rotation' =
          IF camera_auto_rotate_speed # 0 THEN camera_auto_rotate_speed ELSE 0
    /\ last_op' = "BeginScene"
    /\ UNCHANGED <<chrono_postprocess, initialized, m_user_receivers,
                   show_infos, show_profiler, show_explorer, utility_flag,
                   solver_matrix_write, camera_auto_rotate_speed,
                   device_closed, symbolscale, modal_amplitude, modal_speed,
                   modal_mode_n, blender_save, blender_exporter, blender_num,
                   blender_each, g_tabbed_visible, g_treeview_visible,
                   tree_updated, profiler_drawn, exported, ev, ret, offered,
                   calls, utility_flag0, space_count, f7_count,
                   last_camera_key>>
    /\ UNCHANGED vsgVars
    /\ UNCHANGED shoeVars

\* the application calls ChIrrGUI::SetBlenderSave(val), which exists in a build
\* with the postprocessing module only
SetBlenderSaveCall(val) ==
    /\ chrono_postprocess
    /\ \E g \in {SetBlenderSave(GuiState, val)} :
           /\ blender_save' = g.blender_save
           /\ blender_exporter' = g.blender_exporter
           /\ blender_num' = g.blender_num
    /\ last_op' = "SetBlenderSave"
    /\ UNCHANGED <<chrono_postprocess, initialized, m_user_receivers,
                   show_infos, show_profiler, show_explorer, utility_flag,
                   solver_matrix_write, camera_auto_rotate_speed,
                   camera_rotation, device_closed, symbolscale,
                   modal_amplitude, modal_speed, modal_mode_n, blender_each,
                   g_tabbed_visible, g_treeview_visible, tree_updated,
                   profiler_drawn, exported, ev, ret, offered, calls,
                   utility_flag0, space_count, f7_count, last_camera_key>>
    /\ UNCHANGED vsgVars
    /\ UNCHANGED shoeVars

\* if (show_profiler) tools::drawProfiler(m_vis)
ProfilerDrawn(profiler) == profiler

\* ChIrrGUI::EndScene
EndScene ==
    /\ initialized
    /\ ~device_closed
    /\ profiler_drawn' = ProfilerDrawn(show_profiler)
    /\ IF chrono_postprocess /\ blender_save /\ blender_exporter
       THEN /\ blender_num < MaxFrames
            /\ exported' = (blender_num % blender_each = 0)
            /\ blender_num' = blender_num + 1
       ELSE /\ exported' = FALSE
            /\ UNCHANGED blender_num
    /\ last_op' = "EndScene"
    /\ UNCHANGED <<chrono_postprocess, initialized, m_user_receivers,
                   show_infos, show_profiler, show_explorer, utility_flag,
                   solver_matrix_write, camera_auto_rotate_speed,
                   camera_rotation, device_closed, symbolscale,
                   modal_amplitude, modal_speed, modal_mode_n, blender_save,
                   blender_exporter, blender_each, g_tabbed_visible,
                   g_treeview_visible, tree_updated, ev, ret, offered, calls,
                   utility_flag0, space_count, f7_count, last_camera_key>>
    /\ UNCHANGED vsgVars
    /\ UNCHANGED shoeVars

\* ChIrrGUI::ChIrrGUI, and the visual system and physical system it is given
GUIConstructed ==
    /\ initialized = FALSE
    /\ m_user_receivers = <<>>
    /\ show_explorer = FALSE
    /\ show_infos = FALSE
    /\ show_profiler = FALSE
    /\ modal_mode_n = 0
    /\ modal_amplitude = Scaled(1)
    /\ modal_speed = Scaled(10)
    /\ symbolscale = Scaled(10)
    /\ camera_auto_rotate_speed = 0
    /\ blender_save = FALSE
    /\ blender_each = 1
    /\ blender_num = 0
    /\ blender_exporter = FALSE
    /\ utility_flag \in BOOLEAN
    /\ utility_flag0 = utility_flag
    /\ solver_matrix_write = FALSE
    /\ camera_rotation = 0
    /\ device_closed = FALSE
    /\ g_tabbed_visible = TRUE
    /\ g_treeview_visible = TRUE
    /\ tree_updated = FALSE
    /\ profiler_drawn = FALSE
    /\ exported = FALSE
    /\ ev = NoEvent
    /\ ret = FALSE
    /\ offered = <<>>
    /\ calls = <<>>
    /\ space_count = 0
    /\ f7_count = 0
    /\ last_camera_key = "none"

(***************************************************************************)
(* TrackShoeDoublePin                                                      *)
(***************************************************************************)

\* the values of "Type" in a shape entry: the two the code knows, and another
ShapeTypes == {"BOX", "CYLINDER", "SPHERE"}

\* the matID of a shape constructed without one (the visualization primitives)
DefaultMaterial == "default"

\* an entry of "Shoe Shapes"; its "Location" tells the entries apart
ShoeShape(type, matID, loc) == [Type |-> type, MaterialIndex |-> matID, Location |-> loc]

\* an entry of "Primitives"
Primitive(type, loc) == [Type |-> type, Location |-> loc]

\* the "Shoe Shapes" arrays of up to MaxShapes entries with indices from ids
ShoeShapeArrays(ids) ==
    UNION { { [i \in 1..n |-> ShoeShape(types[i], mats[i], i)] :
                 types \in [1..n -> ShapeTypes], mats \in [1..n -> ids] } :
            n \in 0..MaxShapes }

\* the "Primitives" arrays of up to MaxShapes entries
PrimitiveArrays ==
    UNION { { [i \in 1..n |-> Primitive(types[i], 10 + i)] :
                 types \in [1..n -> ShapeTypes] } :
            n \in 0..MaxShapes }

\* a JSON document with the members Create reads: "Shoe Materials" (one
\* description per entry), "Shoe Shapes", and "Visualization" with its "Mesh"
\* and "Primitives" when present
Document(mats, shapes, hasVis, hasMesh, hasPrims, prims) ==
    [IsNull |-> FALSE, ShoeMaterials |-> [i \in 1..mats |-> i],
     ShoeShapes |-> shapes, HasVisualization |-> hasVis, HasMesh |-> hasMesh,
     HasPrimitives |-> hasPrims, Primitives |-> prims]

\* what ReadFileJSON returns for a file that cannot be read or parsed
NullDocument ==
    [IsNull |-> TRUE, ShoeMaterials |-> <<>>, ShoeShapes |-> <<>>,
     HasVisualization |-> FALSE, HasMesh |-> FALSE, HasPrimitives |-> FALSE,
     Primitives |-> <<>>]

\* assert(cond): the program is aborted when cond is false, unless NDEBUG
CheckFails(nd, cond) == ~nd /\ ~cond

\* BoxShape(pos, rot, dims, matID)
BoxShape(pos, matID) == [pos |-> pos, matID |-> matID]

\* CylinderShape(pos, rot, radius, length, matID)
CylinderShape(pos, matID) == [pos |-> pos, matID |-> matID]

\* StoreShape gone wrong: the second branch is a plain else
StoreShapeElse(st, shape, matID) ==
    IF shape.Type = "BOX"
    THEN [st EXCEPT !.boxes = Append(@, BoxShape(shape.Location, matID))]
    ELSE [st EXCEPT !.cylinders = Append(@, CylinderShape(shape.Location, matID))]

\* if (type.compare("BOX") == 0) ... else if (type.compare("CYLINDER") == 0) ...
StoreShape(st, shape, matID) ==
    IF shape.Type = "BOX"
    THEN [st EXCEPT !.boxes = Append(@, BoxShape(shape.Location, matID))]
    ELSE IF shape.Type = "CYLINDER"
    THEN [st EXCEPT !.cylinders = Append(@, CylinderShape(shape.Location, matID))]
    ELSE st

\* "Read geometric collison data": the loop over "Shoe Shapes" from entry i on;
\* st = [boxes, cylinders, abort_at]
RECURSIVE ReadShoeShapes(_, _, _, _, _)
ReadShoeShapes(shapes, num_mats, nd, i, st) ==
    IF i > Len(shapes) THEN st
    ELSE IF CheckFails(nd, shapes[i].MaterialIndex >= 0
                           /\ shapes[i].MaterialIndex < num_mats)
    THEN [st EXCEPT !.abort_at = i]
    ELSE ReadShoeShapes(shapes, num_mats, nd, i + 1,
                        StoreShape(st, shapes[i], shapes[i].MaterialIndex))

\* the loop over "Primitives" from entry i on; st = [boxes, cylinders, abort_at]
RECURSIVE ReadPrimitives(_, _, _)
ReadPrimitives(prims, i, st) ==
    IF i > Len(prims) THEN st
    ELSE ReadPrimitives(prims, i + 1, StoreShape(st, prims[i], DefaultMaterial))

\* VisShapes gone wrong: the collision shapes are copied in every case
VisShapesWithCopies(doc, coll) ==
    IF doc.HasVisualization /\ doc.HasPrimitives
    THEN ReadPrimitives(doc.Primitives, 1, coll)
    ELSE coll

\* "Read visualization data": the visualization shapes, given the collision
\* shapes coll
VisShapes(doc, coll) ==
    IF doc.HasVisualization
    THEN IF doc.HasPrimitives
         THEN ReadPrimitives(doc.Primitives, 1,
                             [boxes |-> <<>>, cylinders |-> <<>>, abort_at |-> 0])
         ELSE [boxes |-> <<>>, cylinders |-> <<>>, abort_at |-> 0]
    ELSE coll

\* TrackShoeDoublePin::Create: the members afterwards, and the entry at which
\* the program was aborted (0: Create returned)
Create(doc, nd) ==
    LET coll == ReadShoeShapes(doc.ShoeShapes, Len(doc.ShoeMaterials), nd, 1,
                               [boxes |-> <<>>, cylinders |-> <<>>, abort_at |-> 0])
        vis == IF coll.abort_at # 0
               THEN [boxes |-> <<>>, cylinders |-> <<>>, abort_at |-> 0]
               ELSE VisShapes(doc, coll)
    IN  [m_shoe_mat_info |-> doc.ShoeMaterials,
         m_coll_boxes |-> coll.boxes,
         m_coll_cylinders |-> coll.cylinders,
         m_vis_boxes |-> vis.boxes,
         m_vis_cylinders |-> vis.cylinders,
         m_has_mesh |-> (coll.abort_at = 0 /\ doc.HasVisualization /\ doc.HasMesh),
         abort_at |-> coll.abort_at]

\* the constructor runs Create on the document
RunCreate ==
    \E c \in {Create(d, ndebug)} :
        /\ m_shoe_mat_info' = c.m_shoe_mat_info
        /\ m_coll_boxes' = c.m_coll_boxes
        /\ m_coll_cylinders' = c.m_coll_cylinders
        /\ m_vis_boxes' = c.m_vis_boxes
        /\ m_vis_cylinders' = c.m_vis_cylinders
        /\ m_has_mesh' = c.m_has_mesh
        /\ abort_at' = c.abort_at
        /\ shoe_state' = IF c.abort_at = 0 THEN "created" ELSE "aborted"

\* TrackShoeDoublePin::TrackShoeDoublePin(const std::string& filename)
TrackShoeDoublePin_File ==
    /\ shoe_state = "none"
    /\ IF d.IsNull
       THEN /\ shoe_state' = "not created"
            /\ UNCHANGED <<m_shoe_mat_info, m_coll_boxes, m_coll_cylinders,
                           m_vis_boxes, m_vis_cylinders, m_has_mesh, abort_at>>
       ELSE RunCreate
    /\ last_op' = "TrackShoeDoublePin(filename)"
    /\ UNCHANGED <<d, ndebug>>
    /\ UNCHANGED <<vsgVars, guiVars>>

\* TrackShoeDoublePin::TrackShoeDoublePin(const rapidjson::Document& d)
TrackShoeDoublePin_Document ==
    /\ shoe_state = "none"
    /\ ~d.IsNull
    /\ RunCreate
    /\ last_op' = "TrackShoeDoublePin(d)"
    /\ UNCHANGED <<d, ndebug>>
    /\ UNCHANGED <<vsgVars, guiVars>>

\* ChTrackShoeDoublePin(""), m_has_mesh(false): the members before Create
ShoeConstructed ==
    /\ m_shoe_mat_info = <<>>
    /\ m_coll_boxes = <<>>
    /\ m_coll_cylinders = <<>>
    /\ m_vis_boxes = <<>>
    /\ m_vis_cylinders = <<>>
    /\ m_has_mesh = FALSE
    /\ shoe_state = "none"
    /\ abort_at = 0

\* a program that makes no track shoe
NoShoe ==
    /\ ShoeConstructed
    /\ d = NullDocument
    /\ ndebug = FALSE

(***************************************************************************)
(* Specifications                                                          *)
(***************************************************************************)

\* the constructor's steps: m_timeStep = m_outputStep = 0.001 (one quantum)
DefaultSteps ==
    /\ m_timeStep = 1
    /\ m_outputStep = 1

\* a system of one body with one box
OneBox ==
    /\ bodylist = <<"b1">>
    /\ assets = [b \in Bodies |-> IF b = "b1" THEN <<"box">> ELSE <<>>]

\* the viewer with the constructor's steps, on every system within the bounds
InitVSG ==
    /\ NoShoe
    /\ VSGConstructed
    /\ DefaultSteps
    /\ GUIConstructed
    /\ utility_flag = FALSE
    /\ chrono_postprocess = FALSE

DoStep == \E ps \in NextPoses : doTimeStep(ps)

Lookup == \E body \in Bodies, asset \in AssetIds : GetTransformCall(body, asset)

NextVSG ==
    \/ Initialize
    \/ DoStep
    \/ Lookup

SpecVSG == InitVSG /\ [][NextVSG]_vars

\* the viewer on a system of one box, with every pair of steps within the bound
InitWait ==
    /\ NoShoe
    /\ VSGConstructed
    /\ OneBox
    /\ m_timeStep \in 1..MaxStepSize
    /\ m_outputStep \in 1..MaxStepSize
    /\ GUIConstructed
    /\ utility_flag = FALSE
    /\ chrono_postprocess = FALSE

SpecWait == InitWait /\ [][NextVSG]_vars

\* the GUI of a build without the postprocessing module
InitGUI ==
    /\ NoShoe
    /\ VSGConstructed
    /\ OneBox
    /\ DefaultSteps
    /\ GUIConstructed
    /\ chrono_postprocess = FALSE

\* the same, on a visual system whose utility flag is off
InitGUIFlagOff ==
    /\ InitGUI
    /\ utility_flag = FALSE

\* the dump of the F6 key may throw; no other event reaches it
Deliver(e) == \E exc \in (IF e.Key = "KEY_F6" THEN BOOLEAN ELSE {FALSE}) : OnEvent(e, exc)

Register == \E receiver \in UserReceivers : AddUserEventReceiver(receiver)

\* every key released, two keys pressed, a mouse event and a GUI event
KeyEvents ==
    { KeyEvent(key, FALSE) : key \in Keys }
    \cup { KeyEvent("KEY_SPACE", TRUE), KeyEvent("KEY_F7", TRUE) }
    \cup { MouseEvent, GUIEvent("EGET_BUTTON_CLICKED", 9901, "", 0) }

Keyboard == \E e \in KeyEvents : Deliver(e)

NextKeys ==
    \/ ChIrrGUI_Initialize
    \/ Register
    \/ Keyboard

\* the GUI under every key, with the user receivers registered in every order
SpecKeys == InitGUIFlagOff /\ [][NextKeys]_vars

\* events of every type, some of them consumed by the driver
MixedEvents ==
    { KeyEvent(key, FALSE) : key \in {"KEY_KEY_I", "KEY_KEY_O", "KEY_SPACE", "KEY_F4", "KEY_KEY_A"} }
    \cup { KeyEvent("KEY_KEY_I", TRUE) }
    \cup { MouseEvent, GUIEvent("EGET_BUTTON_CLICKED", 9901, "", 0) }

Mixed == \E e \in MixedEvents : Deliver(e)

NextRecv ==
    \/ ChIrrGUI_Initialize
    \/ Register
    \/ Mixed

\* the GUI with the user receivers registered in every order
SpecRecv == InitGUI /\ [][NextRecv]_vars

\* the camera keys, and a key that no one handles
CameraEvents ==
    { KeyEvent(key, FALSE) : key \in {"KEY_F2", "KEY_F3", "KEY_F4", "KEY_KEY_A"} }
    \cup { KeyEvent("KEY_F4", TRUE) }

CameraKeys == \E e \in CameraEvents : Deliver(e)

NextCamera ==
    \/ ChIrrGUI_Initialize
    \/ Register
    \/ CameraKeys
    \/ BeginScene

\* the GUI under the camera keys, frame by frame
SpecCamera == InitGUIFlagOff /\ [][NextCamera]_vars

\* the show/hide keys, and a key that no one handles
ShowEvents ==
    { KeyEvent(key, FALSE) : key \in {"KEY_KEY_I", "KEY_KEY_O", "KEY_KEY_U", "KEY_KEY_A"} }
    \cup { KeyEvent("KEY_KEY_O", TRUE) }

ShowKeys == \E e \in ShowEvents : Deliver(e)

NextShow ==
    \/ ChIrrGUI_Initialize
    \/ Register
    \/ ShowKeys
    \/ Render
    \/ EndScene

\* the GUI under the show/hide keys, frame by frame
SpecShow == InitGUIFlagOff /\ [][NextShow]_vars

\* the GUI of a build with or without the postprocessing module
InitBlender ==
    /\ NoShoe
    /\ VSGConstructed
    /\ OneBox
    /\ DefaultSteps
    /\ GUIConstructed
    /\ utility_flag = FALSE
    /\ chrono_postprocess \in BOOLEAN

\* the F12 key released and pressed, and a key that no one handles
BlenderEvents ==
    { KeyEvent("KEY_F12", FALSE), KeyEvent("KEY_F12", TRUE), KeyEvent("KEY_KEY_A", FALSE) }

BlenderKeys == \E e \in BlenderEvents : Deliver(e)

SwitchBlenderSave == \E val \in BOOLEAN : SetBlenderSaveCall(val)

NextBlender ==
    \/ ChIrrGUI_Initialize
    \/ Register
    \/ BlenderKeys
    \/ SwitchBlenderSave
    \/ EndScene

\* the GUI under the F12 key and SetBlenderSave, frame by frame
SpecBlender == InitBlender /\ [][NextBlender]_vars

\* the viewer and the GUI left as constructed
Idle ==
    /\ VSGConstructed
    /\ OneBox
    /\ DefaultSteps
    /\ GUIConstructed
    /\ utility_flag = FALSE
    /\ chrono_postprocess = FALSE

\* the documents whose collision data vary: up to MaxMats materials, shapes of
\* every type with material indices in and out of range, no "Visualization"
CollisionDocuments ==
    { Document(mats, shapes, FALSE, FALSE, FALSE, <<>>) :
         mats \in 0..MaxMats, shapes \in ShoeShapeArrays(-1..MaxMats) }
    \cup {NullDocument}

\* a track shoe made from a document, in a build with or without assertions
InitShoe ==
    /\ Idle
    /\ ShoeConstructed
    /\ d \in CollisionDocuments
    /\ ndebug \in BOOLEAN

NextShoe ==
    \/ TrackShoeDoublePin_File
    \/ TrackShoeDoublePin_Document

SpecShoe == InitShoe /\ [][NextShoe]_vars

\* the documents whose visualization data vary: one material, shapes of every
\* type, with and without "Visualization", "Mesh" and "Primitives"
VisualizationDocuments ==
    { Document(1, shapes, vis[1], vis[1] /\ vis[2], vis[1] /\ vis[3],
               IF vis[1] /\ vis[3] THEN prims ELSE <<>>) :
         shapes \in ShoeShapeArrays({0}), vis \in BOOLEAN \X BOOLEAN \X BOOLEAN,
         prims \in PrimitiveArrays }
    \cup {NullDocument}

InitShoeVis ==
    /\ Idle
    /\ ShoeConstructed
    /\ d \in VisualizationDocuments
    /\ ndebug \in BOOLEAN

SpecShoeVis == InitShoeVis /\ [][NextShoe]_vars

\* the F6 key released and pressed, the F8 and F7 keys, a key that no one
\* handles and a mouse event
DumpEvents ==
    { KeyEvent("KEY_F6", FALSE), KeyEvent("KEY_F6", TRUE),
      KeyEvent("KEY_F8", FALSE), KeyEvent("KEY_F7", FALSE),
      KeyEvent("KEY_KEY_A", FALSE), MouseEvent }

DumpKeys == \E e \in DumpEvents : Deliver(e)

NextDump ==
    \/ ChIrrGUI_Initialize
    \/ Register
    \/ DumpKeys

\* the GUI under the keys of the dumps, whose dump of the matrices may throw
SpecDump == InitGUIFlagOff /\ [][NextDump]_vars

RegisterWidgetReceiver == \E receiver \in WidgetReceivers : AddUserEventReceiver(receiver)

\* what the user can type into an edit box
Texts == {"2", "0.5", "-1", "abc"}

\* the events of the widgets: ENTER in the three edit boxes and in a widget of
\* the application, the scroll bar of the mode moved to every position, and
\* events of another type or of another widget
WidgetEvents ==
    { GUIEvent("EGET_EDITBOX_ENTER", id, text, 0) :
         id \in {9921, 9927, 9928}, text \in Texts }
    \cup { GUIEvent("EGET_EDITBOX_ENTER", 101, "2", 0) }
    \cup { GUIEvent("EGET_SCROLL_BAR_CHANGED", 9926, "", pos) : pos \in 0..MaxModes }
    \cup { GUIEvent("EGET_SCROLL_BAR_CHANGED", 9921, "2", 1),
           GUIEvent("EGET_EDITBOX_ENTER", 9926, "2", 1),
           GUIEvent("EGET_BUTTON_CLICKED", 9928, "2", 1),
           GUIEvent("EGET_CHECKBOX_CHANGED", 9914, "", 0) }

Widgets == \E e \in WidgetEvents : Deliver(e)

NextWidgets ==
    \/ ChIrrGUI_Initialize
    \/ RegisterWidgetReceiver
    \/ Widgets

\* the GUI under the events of its widgets
SpecWidgets == InitGUIFlagOff /\ [][NextWidgets]_vars


(***************************************************************************)
(* The claims about ChVSGApp                                               *)
(***************************************************************************)

\* the shape types the claims name
ClaimedShapes == {"box", "sphere", "ellipsoid", "cylinder"}

\* the places <<k, i>> of the body list that hold a shape: asset i of body k
ShapeSlots ==
    { s \in (1..Len(bodylist)) \X (1..MaxAssets + 1) :
        /\ s[2] <= Len(assets[bodylist[s[1]]])
        /\ assets[bodylist[s[1]]][s[2]] \in ClaimedShapes }

\* body-list order and then asset order
SlotBefore(s, t) == s[1] < t[1] \/ (s[1] = t[1] /\ s[2] < t[2])

SlotRank(s) == Cardinality({ t \in ShapeSlots : SlotBefore(t, s) }) + 1

\* C2: after BuildSceneGraph (run by Initialize) the root holds exactly one
\* child for each shape asset of each body of the body list, in body-list
\* order and then asset order, tagged with that body and that asset; an asset
\* of another type adds no child; m_build_graph is false.
C2_BuildSceneGraph ==
    last_op = "Initialize" =>
        /\ Len(m_scenegraph) = Cardinality(ShapeSlots)
        /\ \A s \in ShapeSlots :
              /\ m_scenegraph[SlotRank(s)].bodyPtr = bodylist[s[1]]
              /\ m_scenegraph[SlotRank(s)].assetPtr = assets[bodylist[s[1]]][s[2]]
        /\ m_build_graph = FALSE

\* C2 witness: a graph built from two bodies, one with an asset that is no
\* shape and adds no child, the other with a shape
C2_Witness ==
    /\ last_op = "Initialize"
    /\ bodylist = <<"b1", "b2">>
    /\ assets["b1"] = <<"color">>
    /\ assets["b2"] = <<"ellipsoid">>
    /\ Len(m_scenegraph) = 1
    /\ m_scenegraph[1].bodyPtr = "b2"

\* the children that carry both the body and the asset of the last lookup
Matching ==
    { i \in 1..Len(m_scenegraph) :
        m_scenegraph[i].bodyPtr = q_body /\ m_scenegraph[i].assetPtr = q_asset }

\* C3: GetTransform(body, asset) returns the transform of the first child, in
\* index order, whose bodyPtr and assetPtr both match (a child matching only
\* one of them is skipped), and the null reference when no child matches;
\* the call leaves the scene graph as it is.
C3_GetTransform ==
    /\ [](last_op = "GetTransform" =>
            IF Matching = {} THEN q_result = 0
            ELSE q_result \in Matching /\ \A j \in Matching : q_result <= j)
    /\ [][last_op' = "GetTransform" => m_scenegraph' = m_scenegraph]_vars

\* C3 witness: the second child is returned after a first child that carries
\* the asset looked up, but on another body
C3_Witness ==
    /\ last_op = "GetTransform"
    /\ q_result = 2
    /\ m_scenegraph[1].assetPtr = q_asset
    /\ m_scenegraph[1].bodyPtr # q_body

\* the transform the claim C4 gives for a child: translation = body position +
\* body rotation applied to the asset offset, rotation = body rotation composed
\* with the asset rotation, scale = the size of the shape
MirroredTransform(node) ==
    LET p == pose[node.bodyPtr]
        a == node.assetPtr
    IN  [translate |-> VAdd(p.pos, Rotate(p.rot, AssetPos(a))),
         rotate |-> (p.rot + AssetRot(a)) % 4,
         scale |-> ShapeScale(a)]

\* C4: after UpdateSceneGraph returns, every child that BuildSceneGraph
\* created holds the transform computed from the current pose of its own body
\* and asset, for every body list, one that attaches an asset twice included.
C4_GraphMirrorsBodies ==
    (last_op = "doTimeStep" /\ update_called) =>
        \A i \in 1..Len(m_scenegraph) :
            m_scenegraph[i].transform = MirroredTransform(m_scenegraph[i])

\* C5: with N = m_wait_counter_max as Initialize sets it (1 when the output
\* step is at most the time step, else the floor of their quotient), every
\* doTimeStep advances the dynamics by m_timeStep, and UpdateSceneGraph runs
\* on exactly the calls whose 1-based index since Initialize is a multiple of N.
C5_WaitCounter ==
    m_system =>
        /\ m_wait_counter_max =
              (IF m_outputStep <= m_timeStep THEN 1 ELSE m_outputStep \div m_timeStep)
        /\ chTime = step_index * m_timeStep
        /\ step_index >= 1 => (update_called <=> step_index % m_wait_counter_max = 0)

\* C5 witness: the fourth call with N = 2 updates the graph for the second time
C5_Witness ==
    /\ last_op = "doTimeStep"
    /\ m_wait_counter_max = 2
    /\ step_index = 4
    /\ update_called

(***************************************************************************)
(* The claims about ChIrrGUI                                               *)
(***************************************************************************)

\* the state of the GUI and of the systems behind it that an event can change
guiState ==
    <<show_infos, show_profiler, show_explorer, utility_flag,
      solver_matrix_write, camera_auto_rotate_speed, camera_rotation,
      device_closed, symbolscale, modal_amplitude, modal_speed, modal_mode_n,
      blender_save, blender_exporter, blender_num, blender_each,
      g_tabbed_visible, g_treeview_visible, m_user_receivers>>

\* the registered receivers that consume the event e
Consumers(e) ==
    { k \in 1..Len(m_user_receivers) : RecvOnEvent(m_user_receivers[k], e) }

\* C1: OnEvent offers every event to the user receivers in the order of their
\* registration (AddUserEventReceiver appends); at the first one that returns
\* true OnEvent returns true, no later user receiver and no built-in handling
\* runs, and no state of the GUI or of the systems changes.
C1_UserReceiversFirst ==
    /\ [](last_op = "OnEvent" =>
            IF Consumers(ev) = {} THEN offered = m_user_receivers
            ELSE \E k \in Consumers(ev) :
                    /\ \A j \in Consumers(ev) : k <= j
                    /\ offered = SubSeq(m_user_receivers, 1, k)
                    /\ ret = TRUE
                    /\ calls = <<>>)
    /\ [][(last_op' = "OnEvent" /\ Consumers(ev') # {}) => UNCHANGED guiState]_vars
    /\ [][last_op' = "AddUserEventReceiver" =>
            \E r \in UserReceivers : m_user_receivers' = Append(m_user_receivers, r)]_vars

\* C1 witness: the driver, registered first, consumed a release of 'I'; the
\* logger registered after it was not invoked and show_infos is still off
C1_Witness ==
    /\ last_op = "OnEvent"
    /\ IsKeyRelease(ev, "KEY_KEY_I")
    /\ m_user_receivers = <<"driver", "logger">>
    /\ offered = <<"driver">>
    /\ ret = TRUE
    /\ show_infos = FALSE

\* the GUI state other than the three show flags
notShowState ==
    <<utility_flag, solver_matrix_write, camera_auto_rotate_speed,
      camera_rotation, device_closed, symbolscale, modal_amplitude,
      modal_speed, modal_mode_n, blender_save, blender_exporter, blender_num,
      blender_each, g_tabbed_visible, g_treeview_visible, m_user_receivers>>

\* the OnEvent call that just returned got a release of key that no user
\* receiver consumed
Handled(key) ==
    last_op' = "OnEvent" /\ IsKeyRelease(ev', key) /\ Consumers(ev') = {}

\* C6: a release of 'I', 'O' or 'U' that no user receiver consumed inverts
\* show_infos, show_profiler or show_explorer respectively, leaves the other
\* two flags and all other GUI state unchanged and returns true; two releases
\* of the same key restore the flag.
C6_ShowKeysToggle ==
    [][ /\ Handled("KEY_KEY_I") =>
              /\ show_infos' = ~show_infos
              /\ UNCHANGED <<show_profiler, show_explorer, notShowState>>
              /\ ret' = TRUE
        /\ Handled("KEY_KEY_O") =>
              /\ show_profiler' = ~show_profiler
              /\ UNCHANGED <<show_infos, show_explorer, notShowState>>
              /\ ret' = TRUE
        /\ Handled("KEY_KEY_U") =>
              /\ show_explorer' = ~show_explorer
              /\ UNCHANGED <<show_infos, show_profiler, notShowState>>
              /\ ret' = TRUE
        /\ \A b \in BOOLEAN : KeyI(KeyI(b)) = b /\ KeyO(KeyO(b)) = b /\ KeyU(KeyU(b)) = b
      ]_vars

\* C6 witness: a release of 'U', offered to a registered receiver that did not
\* consume it, has switched the property tree on
C6_Witness ==
    /\ last_op = "OnEvent"
    /\ IsKeyRelease(ev, "KEY_KEY_U")
    /\ offered = <<"driver">>
    /\ ret = TRUE
    /\ show_explorer = TRUE
    /\ show_infos = FALSE

\* C7: every Render call makes the tab panel visible exactly when show_infos
\* is true and the property tree visible exactly when show_explorer is true,
\* and refreshes the tree only then; every EndScene call draws the profiler
\* exactly when show_profiler is true.
C7_ShownFollowsFlags ==
    /\ last_op = "Render" =>
          /\ g_tabbed_visible = show_infos
          /\ g_treeview_visible = show_explorer
          /\ tree_updated = show_explorer
    /\ last_op = "EndScene" => profiler_drawn = show_profiler

\* C7 witness: a frame with the settings and the profiler on and the property
\* tree off: Render has hidden the tree, EndScene has drawn the profiler
C7_Witness ==
    /\ last_op = "EndScene"
    /\ show_profiler /\ profiler_drawn
    /\ show_infos /\ g_tabbed_visible
    /\ ~show_explorer /\ ~g_treeview_visible /\ ~tree_updated

\* the GUI state other than the utility flag
notUtilityState ==
    <<show_infos, show_profiler, show_explorer, solver_matrix_write,
      camera_auto_rotate_speed, camera_rotation, device_closed, symbolscale,
      modal_amplitude, modal_speed, modal_mode_n, blender_save,
      blender_exporter, blender_num, blender_each, g_tabbed_visible,
      g_treeview_visible, m_user_receivers>>

\* C8 as stated: each release of the spacebar inverts the utility flag of the
\* visual system, changes no other GUI state and returns true.
C8_EverySpaceToggles ==
    [][(last_op' = "OnEvent" /\ IsKeyRelease(ev', "KEY_SPACE")) =>
          /\ utility_flag' = ~utility_flag
          /\ UNCHANGED notUtilityState
          /\ ret' = TRUE]_vars

\* C8 amended: each release of the spacebar that no user receiver consumed
\* inverts the utility flag, changes no other GUI state and returns true; after
\* an even number of such releases the flag has its original value.
C8_HandledSpaceToggles ==
    /\ [][Handled("KEY_SPACE") =>
            /\ utility_flag' = ~utility_flag
            /\ UNCHANGED notUtilityState
            /\ ret' = TRUE]_vars
    /\ [](space_count = 0 => utility_flag = utility_flag0)
    /\ [](space_count = 1 => utility_flag = ~utility_flag0)

\* C8 witness: the second handled release of the spacebar, offered to a
\* registered receiver that let it pass, has restored the flag
C8_Witness ==
    /\ last_op = "OnEvent"
    /\ IsKeyRelease(ev, "KEY_SPACE")
    /\ offered = <<"logger">>
    /\ ret = TRUE
    /\ space_count = 0
    /\ utility_flag = utility_flag0

\* C9 as stated: a release of F7 enables the writing of the solver matrices
\* when it is disabled, disables it when it is enabled and returns true; no
\* other key changes the setting.
C9_EveryF7Switches ==
    [][last_op' = "OnEvent" =>
          IF IsKeyRelease(ev', "KEY_F7")
          THEN solver_matrix_write' = ~solver_matrix_write /\ ret' = TRUE
          ELSE solver_matrix_write' = solver_matrix_write]_vars

\* C9 amended: a release of F7 that no user receiver consumed enables the
\* writing of the solver matrices when it is disabled, disables it when it is
\* enabled and returns true; no other event changes the setting, so from
\* disabled it is enabled exactly after an odd number of such releases.
C9_HandledF7Switches ==
    /\ [][last_op' = "OnEvent" =>
            IF IsKeyRelease(ev', "KEY_F7") /\ Consumers(ev') = {}
            THEN solver_matrix_write' = ~solver_matrix_write /\ ret' = TRUE
            ELSE solver_matrix_write' = solver_matrix_write]_vars
    /\ [](solver_matrix_write <=> f7_count = 1)

\* C9 witness: a handled release of F7, offered to a registered receiver that
\* let it pass, has switched the writing off again
C9_Witness ==
    /\ last_op = "OnEvent"
    /\ IsKeyRelease(ev, "KEY_F7")
    /\ offered = <<"logger">>
    /\ ret = TRUE
    /\ f7_count = 0
    /\ solver_matrix_write = FALSE

\* what C10 says of a release of F4, F2 and F3: the speed after the release
CameraKeyEffect ==
    /\ IsKeyRelease(ev', "KEY_F4") =>
          /\ camera_auto_rotate_speed' > 0
          /\ IF camera_auto_rotate_speed <= 0
             THEN camera_auto_rotate_speed' = SpeedStep
             ELSE 2 * camera_auto_rotate_speed' = 3 * camera_auto_rotate_speed
    /\ IsKeyRelease(ev', "KEY_F2") =>
          /\ camera_auto_rotate_speed' < 0
          /\ IF camera_auto_rotate_speed >= 0
             THEN camera_auto_rotate_speed' = -SpeedStep
             ELSE 2 * camera_auto_rotate_speed' = 3 * camera_auto_rotate_speed
    /\ IsKeyRelease(ev', "KEY_F3") => camera_auto_rotate_speed' = 0

\* C10 as stated: after a release of F4 the speed is strictly positive (0.02
\* if it was <= 0, else 1.5 times the previous value), after a release of F2
\* strictly negative (-0.02 if it was >= 0, else 1.5 times), after F3 it is 0.
C10_EveryCameraKeyActs ==
    [][last_op' = "OnEvent" => CameraKeyEffect]_vars

\* C10 amended: the same of each release of F4, F2 or F3 that no user receiver
\* consumed; hence the sign of the speed is determined by the most recent of
\* these three keys that reached the built-in handling (0 before the first).
C10_HandledCameraKeyActs ==
    /\ [][(last_op' = "OnEvent" /\ Consumers(ev') = {}) => CameraKeyEffect]_vars
    /\ [](/\ last_camera_key = "KEY_F4" => camera_auto_rotate_speed > 0
          /\ last_camera_key = "KEY_F2" => camera_auto_rotate_speed < 0
          /\ last_camera_key \in {"KEY_F3", "none"} => camera_auto_rotate_speed = 0)

\* C10 witness: after two handled releases of F2, with a receiver registered
\* that let them pass, the speed is -0.03 and BeginScene turns the camera by it
C10_Witness ==
    /\ last_op = "BeginScene"
    /\ m_user_receivers # <<>>
    /\ last_camera_key = "KEY_F2"
    /\ 2 * camera_auto_rotate_speed = -3 * SpeedStep
    /\ camera_rotation = camera_auto_rotate_speed


\* C11: as the help tab says, a release of 'p' advances the simulation by a
\* single step, a release of F10 runs a non-linear static analysis and a
\* release of F11 a linear one: each of these releases, when no user receiver
\* consumed it, is acted on by the receiver, which makes a call on the system
\* and returns true.
C11_HelpKeysActedOn ==
    [][\A key \in {"KEY_KEY_P", "KEY_F10", "KEY_F11"} :
          Handled(key) => (ret' = TRUE /\ calls' # <<>>)]_vars


\* the GUI parameters the widgets are wired to, one left out at a time
notSymbolscale == <<modal_amplitude, modal_speed, modal_mode_n>>

notModalAmplitude == <<symbolscale, modal_speed, modal_mode_n>>

notModalSpeed == <<symbolscale, modal_amplitude, modal_mode_n>>

notModalModeN == <<symbolscale, modal_amplitude, modal_speed>>

\* the state of the GUI other than the four parameters of the widgets
notWidgetState ==
    <<show_infos, show_profiler, show_explorer, utility_flag,
      solver_matrix_write, camera_auto_rotate_speed, camera_rotation,
      device_closed, blender_save, blender_exporter, blender_num,
      blender_each, g_tabbed_visible, g_treeview_visible, m_user_receivers>>

\* what C12 says of the GUI event e that OnEvent was called with
WidgetEffect(e) ==
    /\ UNCHANGED notWidgetState
    /\ IF e.GUIEventType = "EGET_EDITBOX_ENTER" /\ e.id = 9921
       THEN /\ symbolscale' = SetSymbolscale(GuiState, Atof(e.text)).symbolscale
            /\ UNCHANGED notSymbolscale
       ELSE IF e.GUIEventType = "EGET_EDITBOX_ENTER" /\ e.id = 9927
       THEN /\ modal_amplitude' = SetModalAmplitude(GuiState, Atof(e.text)).modal_amplitude
            /\ UNCHANGED notModalAmplitude
       ELSE IF e.GUIEventType = "EGET_EDITBOX_ENTER" /\ e.id = 9928
       THEN /\ modal_speed' = SetModalSpeed(GuiState, Atof(e.text)).modal_speed
            /\ UNCHANGED notModalSpeed
       ELSE IF e.GUIEventType = "EGET_SCROLL_BAR_CHANGED" /\ e.id = 9926
       THEN /\ modal_mode_n' = e.pos
            /\ UNCHANGED notModalModeN
       ELSE UNCHANGED <<symbolscale, modal_amplitude, modal_speed, modal_mode_n>>

\* C12 as stated: an edit-box ENTER event from id 9921, 9927 or 9928 passes
\* the parsed text to SetSymbolscale, SetModalAmplitude or SetModalSpeed and
\* changes only that parameter, a scroll-bar-changed event from id 9926 sets
\* modal_mode_n to the position, and any other GUI event changes no parameter.
C12_EveryWidgetEvent ==
    [][(last_op' = "OnEvent" /\ ev'.EventType = "EET_GUI_EVENT")
          => WidgetEffect(ev')]_vars

\* C12 amended: the same of every GUI event that no user receiver consumed; a
\* GUI event that a user receiver consumed changes no GUI parameter.
C12_HandledWidgetEvent ==
    [][(last_op' = "OnEvent" /\ ev'.EventType = "EET_GUI_EVENT") =>
          IF Consumers(ev') = {} THEN WidgetEffect(ev')
          ELSE UNCHANGED <<notWidgetState, symbolscale, modal_amplitude,
                           modal_speed, modal_mode_n>>]_vars

\* C12 witness: ENTER in the edit box of the modal speed with the text 0.5,
\* let pass by a registered receiver, has set the modal speed to 0.5 and left
\* the amplitude that an earlier ENTER had set to 2
C12_Witness ==
    /\ last_op = "OnEvent"
    /\ ev = GUIEvent("EGET_EDITBOX_ENTER", 9928, "0.5", 0)
    /\ offered = <<"logger">>
    /\ modal_speed = Scaled(5)
    /\ modal_amplitude = Scaled(20)
    /\ symbolscale = TinyScale


\* C13: while Blender saving is switched on, in a build with postprocessing,
\* every EndScene call exports the data of the frame through the exporter, and
\* while it is switched off no EndScene call exports anything; whenever the
\* saving is on, the exporter exists.
C13_EveryFrameSaved ==
    /\ last_op = "EndScene" => (exported <=> (chrono_postprocess /\ blender_save))
    /\ blender_save => (chrono_postprocess /\ blender_exporter)

\* C13 witness: the second frame after F12 switched the saving on was exported
C13_Witness ==
    /\ last_op = "EndScene"
    /\ blender_save
    /\ blender_num = 2
    /\ exported
    /\ IsKeyRelease(ev, "KEY_F12")


(***************************************************************************)
(* The claims about TrackShoeDoublePin                                     *)
(***************************************************************************)

\* the entries of the array arr whose Type is type, in document order
EntriesOfType(arr, type) ==
    LET IsOfType(e) == e.Type = type
    IN  SelectSeq(arr, IsOfType)

\* the shapes the claims expect for the "Shoe Shapes" entries of a Type
ClaimedCollisionShapes(type) ==
    LET es == EntriesOfType(d.ShoeShapes, type)
    IN  [i \in 1..Len(es) |-> [pos |-> es[i].Location, matID |-> es[i].MaterialIndex]]

\* the shapes the claims expect for the "Primitives" entries of a Type
ClaimedPrimitives(type) ==
    LET es == EntriesOfType(d.Primitives, type)
    IN  [i \in 1..Len(es) |-> [pos |-> es[i].Location, matID |-> DefaultMaterial]]

C15_VisualizationDefaults ==
    shoe_state = "created" =>
        IF ~d.HasVisualization
        THEN /\ m_vis_boxes = m_coll_boxes
             /\ m_vis_cylinders = m_coll_cylinders
        ELSE /\ m_vis_boxes = ClaimedPrimitives("BOX")
             /\ m_vis_cylinders = ClaimedPrimitives("CYLINDER")
             /\ ~d.HasPrimitives => (m_vis_boxes = <<>> /\ m_vis_cylinders = <<>>)

\* C15 witness: a document with collision shapes, and with a "Visualization"
\* member whose only primitive is a cylinder: no collision shape was copied
C15_Witness ==
    /\ shoe_state = "created"
    /\ d.HasVisualization
    /\ d.HasPrimitives
    /\ Len(d.Primitives) = 1
    /\ m_coll_boxes # <<>>
    /\ m_coll_cylinders # <<>>
    /\ m_vis_boxes = <<>>
    /\ Len(m_vis_cylinders) = 1

\* C16: every collision shape that Create stores carries a material index i
\* with 0 <= i < the number of "Shoe Materials" entries, for every document.
C16_MaterialIndexValid ==
    shoe_state = "created" =>
        /\ \A k \in 1..Len(m_coll_boxes) :
              m_coll_boxes[k].matID \in 0..(Len(m_shoe_mat_info) - 1)
        /\ \A k \in 1..Len(m_coll_cylinders) :
              m_coll_cylinders[k].matID \in 0..(Len(m_shoe_mat_info) - 1)


(***************************************************************************)
(* The claim about the dump of the system matrices                         *)
(***************************************************************************)

\* C17: a single dump of the system matrices (the F6 key, when the release
\* reaches the built-in handling) calls Setup, then Update, then dumps the
\* matrices; a ChException of the dump is caught inside DumpSystemMatrices and
\* does not leave it; the F6 key event returns true whether or not the dump
\* failed.
C17_SingleDump ==
    /\ [][Handled("KEY_F6") =>
            /\ Len(calls') >= 3
            /\ SubSeq(calls', 1, 3) = <<"Setup", "Update", "DumpSystemMatrices">>
            /\ \A k \in 4..Len(calls') : calls'[k] = "catch ChException"
            /\ Len(calls') <= 4
            /\ UNCHANGED guiState]_vars
    /\ []((last_op = "OnEvent" /\ IsKeyRelease(ev, "KEY_F6")) => ret = TRUE)

\* C17 witness: the dump of an F6 release, let pass by a registered receiver,
\* threw; the exception was caught and the event returned true
C17_Witness ==
    /\ last_op = "OnEvent"
    /\ IsKeyRelease(ev, "KEY_F6")
    /\ offered = <<"logger">>
    /\ calls = <<"Setup", "Update", "DumpSystemMatrices", "catch ChException">>
    /\ ret = TRUE

=============================================================================
